---- MODULE Spec2Model ----
(***************************************************************************)
(* Model of src/server.py: an MCP server exposing five one-request tools   *)
(* (get_current_weather, get_5_day_forecast, get_air_quality,              *)
(* get_uv_index, get_coordinates) and the composite tool                   *)
(* get_location_recommendation.                                            *)
(*                                                                         *)
(* Conventions                                                             *)
(*  - a Python dict is a TLA+ record/function, d['k'] is d.k and raises    *)
(*    KeyError when "k" is not in DOMAIN d; a Python list is a sequence    *)
(*    (index 0 is element 1) and l[0] raises IndexError when it is empty.  *)
(*  - an f-string is the record of the values it embeds, tagged with the   *)
(*    template it comes from (fmt); the symbols "°F"/"°C" are written      *)
(*    "degF"/"degC".                                                       *)
(*  - a tool's outcome is a record with kind "ok" (the success template),  *)
(*    "error" (a string starting with "Error:") or "raised" (an exception  *)
(*    leaves the handler).                                                 *)
(*  - objects of the MCP library (ctx) are not part of the source: a call  *)
(*    on them either raises or returns, and both are modelled.             *)
(***************************************************************************)
EXTENDS Integers, Sequences, FiniteSets, TLC

VARIABLES API_KEY, serving, inv, requests, orch, sampled

vars == <<API_KEY, serving, inv, requests, orch, sampled>>

(***************************************************************************)
(* Bounds of the model and constants of the program.                       *)
(***************************************************************************)
\* longest forecast series a provider answer carries in the model
MaxPoints == 17

\* longest match list a geocoding answer carries in the model
MaxMatches == 2

\* range(0, len(forecast_list), 8)
Stride == 8

\* response.status_code != 200
HTTP_OK == 200

\* Python's None
None == "None"

StatusCodes == {200, 404, 500}

Lats == {43, -33}

Lons == {-79}

\* "standard" is a value the caller may pass although the docstring names two
UnitValues == {"imperial", "metric", "standard"}

Locations == {"Toronto", "Nowhere12345"}

Regions == {"Ontario"}

VacationTypes == {None, "hiking"}

Temps == {5, 21}

SimpleTools ==
  {"get_current_weather", "get_5_day_forecast", "get_air_quality",
   "get_uv_index", "get_coordinates"}

(***************************************************************************)
(* Provider payloads (response.json()).                                    *)
(***************************************************************************)
Has(d, k) == k \in DOMAIN d

\* the error body a provider sends instead of data
ErrorBody == [cod |-> 404, message |-> "not found"]

Snapshot(t) ==
  [main |-> [temp |-> t, humidity |-> 80],
   weather |-> <<[description |-> "light rain"]>>,
   wind |-> [speed |-> 3, deg |-> 200]]

WeatherPayloads ==
  {Snapshot(t) : t \in Temps}
    \cup {ErrorBody,
          [main |-> [temp |-> 5, humidity |-> 80], weather |-> <<>>,
           wind |-> [speed |-> 3, deg |-> 200]],
          [main |-> [temp |-> 5, humidity |-> 80],
           weather |-> <<[description |-> "light rain"]>>]}

\* The i-th point (from 0) of a 3-hourly series that starts at slot s of day 0.
\* dt_txt "YYYY-MM-DD HH:00:00" is the pair <<day, hour>>.
Point(s, i) ==
  [dt_txt |-> <<(s + i) \div 8, 3 * ((s + i) % 8)>>,
   main |-> [temp |-> 10 + i, humidity |-> 80],
   weather |-> <<[description |-> "light rain"]>>,
   wind |-> [speed |-> 3, deg |-> 200]]

Series(s, n) == [i \in 1..n |-> Point(s, i - 1)]

ForecastPayloads ==
  {[list |-> Series(s, n)] : s \in 0..7, n \in 0..MaxPoints}
    \cup {ErrorBody,
          [list |-> <<[dt_txt |-> <<0, 0>>]>>]}

AirPayloads ==
  {[list |-> <<[main |-> [aqi |-> a]]>>] : a \in 1..2}
    \cup {ErrorBody, [list |-> <<>>]}

UvPayloads ==
  {[daily |-> [uv_index_max |-> <<u>>]] : u \in {3, 9}}
    \cup {ErrorBody, [daily |-> [uv_index_max |-> <<>>]]}

Places ==
  {[name |-> "Toronto", state |-> "Ontario", lat |-> 43, lon |-> -79],
   [name |-> "Sydney", lat |-> -33, lon |-> 151],
   [name |-> "Nameless"]}

SeqsUpTo(S, n) == UNION {[1..k -> S] : k \in 0..n}

GeoPayloads == SeqsUpTo(Places, MaxMatches)

Payloads(tool) ==
  CASE tool = "get_current_weather" -> WeatherPayloads
    [] tool = "get_5_day_forecast" -> ForecastPayloads
    [] tool = "get_air_quality" -> AirPayloads
    [] tool = "get_uv_index" -> UvPayloads
    [] tool = "get_coordinates" -> GeoPayloads

Responses(tool) ==
  {[status_code |-> st, json |-> p] : st \in StatusCodes, p \in Payloads(tool)}

(***************************************************************************)
(* Outcomes of a handler.                                                  *)
(***************************************************************************)
Ok(fmt, vals) == [kind |-> "ok", fmt |-> fmt, vals |-> vals]

Error(fmt, vals) == [kind |-> "error", fmt |-> fmt, vals |-> vals]

Raised(exc) == [kind |-> "raised", fmt |-> exc, vals |-> <<>>]

\* unit_symbol = "°F" if units == "imperial" else "°C"
unit_symbol(units) == IF units = "imperial" THEN "degF" ELSE "degC"

\* The exception raised by reading ['main']['temp'], ['weather'][0]
\* ['description'], ['main']['humidity'], ['wind']['speed'], ['wind']['deg']
\* of d in that order, or "none".
SnapshotFault(d) ==
  IF ~Has(d, "main") THEN "KeyError"
  ELSE IF ~Has(d.main, "temp") THEN "KeyError"
  ELSE IF ~Has(d, "weather") THEN "KeyError"
  ELSE IF Len(d.weather) = 0 THEN "IndexError"
  ELSE IF ~Has(d.weather[1], "description") THEN "KeyError"
  ELSE IF ~Has(d.main, "humidity") THEN "KeyError"
  ELSE IF ~Has(d, "wind") THEN "KeyError"
  ELSE IF ~Has(d.wind, "speed") THEN "KeyError"
  ELSE IF ~Has(d.wind, "deg") THEN "KeyError"
  ELSE "none"

(***************************************************************************)
(* The outbound request of each tool: the provider endpoint and params.    *)
(***************************************************************************)
weather_request(lat, lon, units) ==
  [url |-> "data/2.5/weather",
   params |-> [lat |-> lat, lon |-> lon, appid |-> API_KEY, units |-> units]]

forecast_request(lat, lon, units) ==
  [url |-> "data/2.5/forecast",
   params |-> [lat |-> lat, lon |-> lon, appid |-> API_KEY, units |-> units]]

air_request(lat, lon) ==
  [url |-> "data/2.5/air_pollution",
   params |-> [lat |-> lat, lon |-> lon, appid |-> API_KEY]]

uv_request(lat, lon) ==
  [url |-> "open-meteo/v1/forecast",
   params |-> [latitude |-> lat, longitude |-> lon, daily |-> "uv_index_max",
               timezone |-> "auto"]]

geo_request(location) ==
  [url |-> "geo/1.0/direct",
   params |-> [q |-> location, limit |-> 1, appid |-> API_KEY]]

ToolRequest(tool, args) ==
  CASE tool = "get_current_weather" ->
         weather_request(args.lat, args.lon, args.units)
    [] tool = "get_5_day_forecast" ->
         forecast_request(args.lat, args.lon, args.units)
    [] tool = "get_air_quality" -> air_request(args.lat, args.lon)
    [] tool = "get_uv_index" -> uv_request(args.lat, args.lon)
    [] tool = "get_coordinates" -> geo_request(args.location)

\* `await client.get(url, params=params)`: the requests one get puts on the wire
client_get_dup(req) == <<req, req>>

client_get(req) == <<req>>

(***************************************************************************)
(* The handlers, from the response on.                                     *)
(***************************************************************************)
get_current_weather(lat, lon, units, response) ==
  IF response.status_code # HTTP_OK
  THEN Error("Could not find weather", <<lat, lon, response.status_code>>)
  ELSE LET data == response.json
       IN  IF SnapshotFault(data) # "none" THEN Raised(SnapshotFault(data))
           ELSE Ok("The current weather in",
                   [lat |-> lat, lon |-> lon,
                    desc |-> data.weather[1].description,
                    temp |-> data.main.temp,
                    unit_symbol |-> unit_symbol(units),
                    humidity |-> data.main.humidity,
                    wind_speed |-> data.wind.speed,
                    wind_direction |-> data.wind.deg])

\* range(1, n, 8): an off-by-one start
daily_indices_from_one(n) == {i \in 0..(n - 1) : i >= 1 /\ (i - 1) % Stride = 0}

\* range(0, n, 8), as 0-based indices
daily_indices(n) == {i \in 0..(n - 1) : i % Stride = 0}

\* the elements of a set of integers in increasing order
Sorted(S) ==
  LET f[T \in SUBSET S] ==
        IF T = {} THEN <<>>
        ELSE LET m == CHOOSE x \in T : \A y \in T : x <= y
             IN  <<m>> \o f[T \ {m}]
  IN  f[S]

\* dt_txt.split(" ")[0]
date_of(dt_txt) == dt_txt[1]

\* one element of daily_summaries
day_summary(day_data, units) ==
  [date |-> date_of(day_data.dt_txt),
   temp |-> day_data.main.temp,
   unit_symbol |-> unit_symbol(units),
   desc |-> day_data.weather[1].description,
   humidity |-> day_data.main.humidity,
   wind_speed |-> day_data.wind.speed,
   wind_direction |-> day_data.wind.deg]

\* the exception a visited point raises, or "none"
PointFault(p) ==
  IF ~Has(p, "dt_txt") THEN "KeyError" ELSE SnapshotFault(p)

get_5_day_forecast(lat, lon, units, response) ==
  IF response.status_code # HTTP_OK
  THEN Error("Could not fetch forecast", <<lat, lon>>)
  ELSE LET data == response.json
       IN  IF ~Has(data, "list") THEN Raised("KeyError")
           ELSE LET forecast_list == data.list
                    idx == Sorted(daily_indices(Len(forecast_list)))
                    bad == {k \in 1..Len(idx) :
                              PointFault(forecast_list[idx[k] + 1]) # "none"}
                IN  IF bad # {}
                    THEN Raised(PointFault(forecast_list[
                           idx[CHOOSE k \in bad : \A j \in bad : k <= j] + 1]))
                    ELSE Ok("5-Day Forecast for",
                            [lat |-> lat, lon |-> lon,
                             daily_summaries |->
                               [k \in 1..Len(idx) |->
                                  day_summary(forecast_list[idx[k] + 1], units)]])

get_air_quality(lat, lon, response) ==
  IF response.status_code # HTTP_OK
  THEN Error("Could not fetch air quality data", <<lat, lon>>)
  ELSE LET data == response.json
       IN  IF ~Has(data, "list") THEN Raised("KeyError")
           ELSE IF Len(data.list) = 0 THEN Raised("IndexError")
           ELSE IF ~Has(data.list[1], "main") THEN Raised("KeyError")
           ELSE IF ~Has(data.list[1].main, "aqi") THEN Raised("KeyError")
           ELSE Ok("The air quality index at coordinates",
                   [lat |-> lat, lon |-> lon, aqi |-> data.list[1].main.aqi])

\* no status check: the body is read whatever the status
get_uv_index(lat, lon, response) ==
  LET data == response.json
  IN  IF ~Has(data, "daily") THEN Raised("KeyError")
      ELSE IF ~Has(data.daily, "uv_index_max") THEN Raised("KeyError")
      ELSE IF Len(data.daily.uv_index_max) = 0 THEN Raised("IndexError")
      ELSE Ok("The maximum UV index at coordinates",
              [lat |-> lat, lon |-> lon, uv_max |-> data.daily.uv_index_max[1]])

\* a handler that answers an empty match list with a placeholder coordinate
get_coordinates_placeholder(location, response) ==
  IF response.status_code # HTTP_OK
  THEN Error("API call failed with status", <<response.status_code>>)
  ELSE LET data == response.json
       IN  IF Len(data) = 0
           THEN Ok("Location", [name |-> location, state |-> "N/A",
                                lat |-> 0, lon |-> 0])
           ELSE LET place == data[1]
                IN  IF ~Has(place, "lat") \/ ~Has(place, "lon")
                       \/ ~Has(place, "name")
                    THEN Raised("KeyError")
                    ELSE Ok("Location",
                            [name |-> place.name,
                             state |-> IF Has(place, "state") THEN place.state
                                       ELSE "N/A",
                             lat |-> place.lat, lon |-> place.lon])

get_coordinates(location, response) ==
  IF response.status_code # HTTP_OK
  THEN Error("API call failed with status", <<response.status_code>>)
  ELSE LET data == response.json
       IN  IF Len(data) = 0
           THEN Error("Could not find coordinates for", <<location>>)
           ELSE LET place == data[1]
                IN  IF ~Has(place, "lat") \/ ~Has(place, "lon")
                       \/ ~Has(place, "name")
                    THEN Raised("KeyError")
                    ELSE Ok("Location",
                            [name |-> place.name,
                             state |-> IF Has(place, "state") THEN place.state
                                       ELSE "N/A",
                             lat |-> place.lat, lon |-> place.lon])

ToolResult(tool, args, response) ==
  CASE tool = "get_current_weather" ->
         get_current_weather(args.lat, args.lon, args.units, response)
    [] tool = "get_5_day_forecast" ->
         get_5_day_forecast(args.lat, args.lon, args.units, response)
    [] tool = "get_air_quality" -> get_air_quality(args.lat, args.lon, response)
    [] tool = "get_uv_index" -> get_uv_index(args.lat, args.lon, response)
    [] tool = "get_coordinates" -> get_coordinates(args.location, response)

\* the arguments a caller may pass to each tool
ToolArgs(tool) ==
  CASE tool \in {"get_current_weather", "get_5_day_forecast"} ->
         [lat : Lats, lon : Lons, units : UnitValues]
    [] tool \in {"get_air_quality", "get_uv_index"} -> [lat : Lats, lon : Lons]
    [] tool = "get_coordinates" -> [location : Locations]


(***************************************************************************)
(* State.                                                                  *)
(*  API_KEY   the module global read from the environment                  *)
(*  serving   mcp.run() has been reached and tools are being served        *)
(*  inv       the simple-tool handler in flight, if any                    *)
(*  requests  the HTTP requests issued since the client's last invocation  *)
(*  orch      the get_location_recommendation handler in flight, if any    *)
(*  sampled   the prompts handed to ctx.sample                             *)
(* Handlers share nothing but API_KEY, which none of them writes, so one   *)
(* handler in flight at a time shows every behaviour of an invocation.     *)
(* No step appends to sampled: line 161 is behind the call of line 158,    *)
(* which always raises.                                                    *)
(***************************************************************************)
NoResponse == [status_code |-> 0, json |-> <<>>]

NoResult == [kind |-> "none", fmt |-> "", vals |-> <<>>]

IdleInv ==
  [pc |-> "idle", tool |-> "none", args |-> <<>>, parent |-> "none",
   response |-> NoResponse, result |-> NoResult]

NoCall == [fn |-> "none", args |-> <<>>]

IdleOrch ==
  [pc |-> "idle", city |-> None, region |-> None, vacation_type |-> None,
   geo |-> NoResult, lat |-> None, lon |-> None, call |-> NoCall,
   result |-> NoResult]

\* load_dotenv(); API_KEY = os.getenv("API_KEY"): None when the variable is unset
Init ==
  /\ API_KEY \in {None, "k3y"}
  /\ serving = FALSE
  /\ inv = IdleInv
  /\ requests = <<>>
  /\ orch = IdleOrch
  /\ sampled = <<>>

\* if __name__ == "__main__": mcp.run()
Run ==
  /\ ~serving
  /\ serving' = TRUE
  /\ UNCHANGED <<API_KEY, inv, requests, orch, sampled>>

\* A handler from its entry to its `await client.get(...)`.
StartHandler(tool, args, parent) ==
  [pc |-> "awaiting", tool |-> tool, args |-> args, parent |-> parent,
   response |-> NoResponse, result |-> NoResult]

\* The client invokes one of the simple tools.
CallTool ==
  /\ serving
  /\ inv.pc = "idle"
  /\ orch.pc = "idle"
  /\ \E tool \in SimpleTools :
       \E args \in ToolArgs(tool) :
         /\ inv' = StartHandler(tool, args, "client")
         /\ requests' = client_get(ToolRequest(tool, args))
  /\ UNCHANGED <<API_KEY, serving, orch, sampled>>

\* The provider answers; the handler runs from the response to its end.
Respond ==
  /\ inv.pc = "awaiting"
  /\ \E response \in Responses(inv.tool) :
       inv' = [inv EXCEPT !.pc = "done",
                          !.response = response,
                          !.result = ToolResult(inv.tool, inv.args, response)]
  /\ UNCHANGED <<API_KEY, serving, requests, orch, sampled>>

\* The outcome goes back to the client.
Return ==
  /\ inv.pc = "done"
  /\ inv.parent = "client"
  /\ inv' = IdleInv
  /\ requests' = <<>>
  /\ UNCHANGED <<API_KEY, serving, orch, sampled>>

(***************************************************************************)
(* get_location_recommendation.                                            *)
(***************************************************************************)
\* the positional parameters of the handlers called by name
Signature(fn) ==
  CASE fn = "get_current_weather" -> <<"lat", "lon", "units">>
    [] fn = "get_5_day_forecast" -> <<"lat", "lon", "units">>

\* Python binds positional arguments to required parameters one to one;
\* any other count is a TypeError at the call.
BindOK(fn, args) == Len(args) = Len(Signature(fn))

\* The client invokes get_location_recommendation(city, region, vacation_type).
OrchInvoke ==
  /\ serving
  /\ inv.pc = "idle"
  /\ orch.pc = "idle"
  /\ \E city \in Locations, region \in Regions, vacation_type \in VacationTypes :
       orch' = [IdleOrch EXCEPT !.pc = "l157", !.city = city,
                                !.region = region,
                                !.vacation_type = vacation_type]
  /\ requests' = <<>>
  /\ UNCHANGED <<API_KEY, serving, inv, sampled>>

\* ctx.call_tool("get_coordinates", city): the library object refuses the call
OrchCallToolRaises ==
  /\ orch.pc = "l157"
  /\ orch' = [orch EXCEPT !.pc = "raised", !.result = Raised("AttributeError")]
  /\ UNCHANGED <<API_KEY, serving, inv, requests, sampled>>

\* ctx.call_tool("get_coordinates", city): the library runs the tool
OrchCallTool ==
  /\ orch.pc = "l157"
  /\ inv.pc = "idle"
  /\ inv' = StartHandler("get_coordinates", [location |-> orch.city], "orch")
  /\ requests' =
       requests \o client_get(ToolRequest("get_coordinates",
                                          [location |-> orch.city]))
  /\ orch' = [orch EXCEPT !.pc = "await157"]
  /\ UNCHANGED <<API_KEY, serving, sampled>>

\* lat, lon = <the value of ctx.call_tool>: an exception of the tool goes on
\* up; a value unpacks when the library hands back exactly two items, and
\* is a ValueError otherwise.
OrchUnpack ==
  /\ orch.pc = "await157"
  /\ inv.pc = "done"
  /\ inv.parent = "orch"
  /\ IF inv.result.kind = "raised"
     THEN orch' = [orch EXCEPT !.pc = "raised", !.geo = inv.result,
                               !.result = inv.result]
     ELSE \E two_items \in BOOLEAN :
            IF two_items
            THEN orch' = [orch EXCEPT !.pc = "l158", !.geo = inv.result,
                                      !.lat = "call_tool[0]",
                                      !.lon = "call_tool[1]"]
            ELSE orch' = [orch EXCEPT !.pc = "raised", !.geo = inv.result,
                                      !.result = Raised("ValueError")]
  /\ inv' = IdleInv
  /\ UNCHANGED <<API_KEY, serving, requests, sampled>>

\* current_weather_data = await get_current_weather(city, "metric")
\* Two positional arguments meet three required parameters: the call raises
\* TypeError before the handler body runs, so lines 159-170 (the forecast
\* call, ctx.sample and the return) are not reached by any step.
OrchCallWeather ==
  /\ orch.pc = "l158"
  /\ LET fn == "get_current_weather"
         args == <<orch.city, "metric">>
     IN  IF BindOK(fn, args)
         THEN /\ inv' = StartHandler(fn, [lat |-> args[1], lon |-> args[2],
                                          units |-> args[3]], "orch")
              /\ requests' =
                   requests \o client_get(weather_request(args[1], args[2],
                                                          args[3]))
              /\ orch' = [orch EXCEPT !.pc = "await158",
                                      !.call = [fn |-> fn, args |-> args]]
         ELSE /\ orch' = [orch EXCEPT !.pc = "raised",
                                      !.call = [fn |-> fn, args |-> args],
                                      !.result = Raised("TypeError")]
              /\ UNCHANGED <<inv, requests>>
  /\ UNCHANGED <<API_KEY, serving, sampled>>

\* The exception leaves the handler and the client gets a tool failure.
OrchFail ==
  /\ orch.pc = "raised"
  /\ orch' = IdleOrch
  /\ requests' = <<>>
  /\ UNCHANGED <<API_KEY, serving, inv, sampled>>

Next ==
  \/ Run
  \/ CallTool
  \/ Respond
  \/ Return
  \/ OrchInvoke
  \/ OrchCallToolRaises
  \/ OrchCallTool
  \/ OrchUnpack
  \/ OrchCallWeather
  \/ OrchFail

Spec == Init /\ [][Next]_vars

(***************************************************************************)
(* Claims.                                                                 *)
(***************************************************************************)
\* the payload a tool expects: every field it reads is there, no list is empty
ExpectedShape(tool, json) ==
  CASE tool = "get_current_weather" -> SnapshotFault(json) = "none"
    [] tool = "get_5_day_forecast" ->
         /\ Has(json, "list")
         /\ Len(json.list) > 0
         /\ \A i \in 1..Len(json.list) : PointFault(json.list[i]) = "none"
    [] tool = "get_air_quality" ->
         /\ Has(json, "list")
         /\ Len(json.list) > 0
    [] tool = "get_uv_index" ->
         /\ Has(json, "daily")
         /\ Len(json.daily.uv_index_max) > 0
    [] tool = "get_coordinates" ->
         /\ Len(json) > 0
         /\ \A k \in {"lat", "lon", "name"} : Has(json[1], k)

\* the orchestrator's typed error for a failed stage
StageError(stage) == Error("stage failed", <<stage>>)

\* C3: in get_location_recommendation ctx.sample is invoked only after
\* geocoding, the current-weather fetch and the forecast fetch have all
\* succeeded (no prompt embeds an error string), and a call whose geocoding
\* stage failed ends in an error that names that stage.
C3_AbortNamesFailedStage ==
  /\ \A i \in 1..Len(sampled) :
       /\ sampled[i].current_weather_data.kind = "ok"
       /\ sampled[i].weather_data_5_days.kind = "ok"
  /\ (orch.pc = "raised" /\ orch.geo.kind \in {"error", "raised"})
       => orch.result = StageError("geocoding")

\* C4: a simple tool that got a non-success status, or a payload with a
\* missing expected field or an empty result list, returns an error string:
\* it neither raises nor returns the success template.
C4_BadResponseGivesErrorString ==
  (/\ inv.pc = "done"
   /\ \/ inv.response.status_code # 200
      \/ ~ExpectedShape(inv.tool, inv.response.json))
    => inv.result.kind = "error"

\* the unit symbols a returned weather or forecast string carries
SymbolsOf(result) ==
  IF result.kind # "ok" THEN {}
  ELSE IF result.fmt = "The current weather in" THEN {result.vals.unit_symbol}
  ELSE {result.vals.daily_summaries[k].unit_symbol :
          k \in 1..Len(result.vals.daily_summaries)}

\* C5: get_current_weather and get_5_day_forecast render degF for "imperial"
\* and degC for "metric"; any other units value ends in a validation error,
\* with no provider request issued and no string with a unit symbol returned.
C5_UnitsValidated ==
  (inv.tool \in {"get_current_weather", "get_5_day_forecast"})
    => /\ inv.args.units = "imperial" => SymbolsOf(inv.result) \subseteq {"degF"}
       /\ inv.args.units = "metric" => SymbolsOf(inv.result) \subseteq {"degC"}
       /\ inv.args.units \notin {"imperial", "metric"}
            => /\ requests = <<>>
               /\ inv.result.kind # "ok"

\* C6: for a successful forecast payload of N three-hour points,
\* get_5_day_forecast renders ceil(N/8) day entries, the k-th (from 0) built
\* from the raw point at index 8*k, with strictly increasing dates.
C6_ForecastSampling ==
  (/\ inv.pc = "done"
   /\ inv.tool = "get_5_day_forecast"
   /\ inv.response.status_code = 200
   /\ Has(inv.response.json, "list")
   /\ \A i \in 1..Len(inv.response.json.list) :
        PointFault(inv.response.json.list[i]) = "none")
    => LET raw == inv.response.json.list
           N == Len(raw)
       IN  /\ inv.result.kind = "ok"
           /\ LET days == inv.result.vals.daily_summaries
              IN  /\ Len(days) = (N + 7) \div 8
                  /\ \A k \in 1..Len(days) :
                       /\ 8 * (k - 1) + 1 <= N
                       /\ days[k].date = raw[8 * (k - 1) + 1].dt_txt[1]
                       /\ days[k].temp = raw[8 * (k - 1) + 1].main.temp
                  /\ \A k \in 1..(Len(days) - 1) : days[k].date < days[k + 1].date

\* a forecast of three day entries has been rendered from a series whose
\* length is no multiple of 8
C6_Witness ==
  /\ inv.pc = "done"
  /\ inv.tool = "get_5_day_forecast"
  /\ inv.result.kind = "ok"
  /\ Len(inv.result.vals.daily_summaries) = 3
  /\ Len(inv.response.json.list) % 8 # 0

\* C7: get_coordinates answers status 200 with an empty match list by the
\* error naming the location, and returns a coordinate only for a non-empty
\* list, the coordinate of its first match.
C7_EmptyGeocodeIsNotFound ==
  (inv.pc = "done" /\ inv.tool = "get_coordinates")
    => /\ (inv.response.status_code = 200 /\ Len(inv.response.json) = 0)
            => /\ inv.result.kind = "error"
               /\ inv.result.vals = <<inv.args.location>>
       /\ inv.result.kind = "ok"
            => /\ inv.response.status_code = 200
               /\ Len(inv.response.json) > 0
               /\ inv.result.vals.lat = inv.response.json[1].lat
               /\ inv.result.vals.lon = inv.response.json[1].lon

\* the geocoder answered 200 with no match and the tool returned its error
C7_Witness ==
  /\ inv.pc = "done"
  /\ inv.tool = "get_coordinates"
  /\ inv.response.status_code = 200
  /\ Len(inv.response.json) = 0
  /\ inv.result.kind = "error"

\* C8: an invocation of a simple tool issues exactly one HTTP request, and
\* once the response is in (a failure included) it has its outcome and still
\* no second request.
C8_OneRequestPerInvocation ==
  (inv.pc \in {"awaiting", "done"})
    => /\ Len(requests) = 1
       /\ requests[1] = ToolRequest(inv.tool, inv.args)
       /\ inv.pc = "done" => inv.result.kind \in {"ok", "error", "raised"}

\* a client's invocation has ended on a non-success status
C8_Witness ==
  /\ inv.pc = "done"
  /\ inv.parent = "client"
  /\ inv.response.status_code # 200
  /\ inv.result.kind = "error"
  /\ Len(requests) = 1

\* C9: get_location_recommendation calls the weather tools for the
\* coordinate (lat, lon) geocoding produced, with units "metric", and a call
\* whose geocoding gave a coordinate does not end before the current-weather
\* request for it has been issued.
C9_FetchesUseGeocodedCoordinate ==
  /\ orch.call.fn # "none"
       => orch.call.args = <<orch.lat, orch.lon, "metric">>
  /\ (orch.pc = "raised" /\ orch.lat # None)
       => \E i \in 1..Len(requests) :
            requests[i] = weather_request(orch.lat, orch.lon, "metric")

\* C10: with no API key in the environment the server does not come up: no
\* tool is served and no provider request carries an absent key.
C10_NoServiceWithoutKey ==
  API_KEY = None
    => /\ ~serving
       /\ \A i \in 1..Len(requests) :
            Has(requests[i].params, "appid")
              => requests[i].params.appid # None

====
